---------------------------- MODULE Spec2Model ----------------------------
(***************************************************************************)
(* UK salary calculator (src/script.js): the income-tax module             *)
(* (calculatePersonalAllowance, calculateTaxableIncome, buildTaxBands,     *)
(* calculateIncomeTax) and the two page handlers that call it.             *)
(*                                                                         *)
(* Arithmetic.  The code computes in IEEE doubles; the model computes in   *)
(* exact integers.  An amount of money is an integer number of quarter     *)
(* pounds (Pound units make one pound), and every gross income the model   *)
(* feeds in is a multiple of half a pound, so that the taper's division    *)
(* by two (line 41) is exact.  A rate 0.20 is the integer 20 (per cent),   *)
(* so a tax is an integer number of hundredths of a unit.                  *)
(***************************************************************************)
EXTENDS Integers, Sequences, FiniteSets

VARIABLES
    \* ---- the last call made into the tax module
    op,                 \* "none" | "calc" | "build"
    grossIncome,        \* argument of the calculation, in units
    region,             \* the jurisdiction string passed
    personalAllowance,  \* result of calculatePersonalAllowance / argument of buildTaxBands
    taxableIncome,      \* result of calculateTaxableIncome
    bands,              \* result of buildTaxBands
    totalTax,           \* calculateIncomeTax(...).totalTax, in hundredths of a unit
    breakdown,          \* calculateIncomeTax(...).breakdown
    netAnnual,          \* salary - totalTax, in hundredths of a unit
    thrown,             \* TRUE when the call ended in a TypeError
    \* ---- a page (index.html or hourly-to-salary.html) after DOMContentLoaded
    page,               \* "salary" | "hourly" | "none"
    inputs,             \* the form fields' values
    dom                 \* the text of the result elements

coreVars == <<op, grossIncome, region, personalAllowance, taxableIncome, bands,
              totalTax, breakdown, netAnnual, thrown>>
pageVars == <<page, inputs, dom>>
vars == <<op, grossIncome, region, personalAllowance, taxableIncome, bands,
          totalTax, breakdown, netAnnual, thrown, page, inputs, dom>>

-----------------------------------------------------------------------------
(* Representation *)

\* Units in one pound: amounts are counted in quarter pounds.
Pound == 4

\* The number Infinity of line 70, kept apart from every amount (amounts are >= 0).
Infinity == -2

\* The value null of a template's taxableSize (lines 19, 20, 27, 28).
null == -1

\* x <= y on numbers that may be Infinity (line 123).
Leq(x, y) == IF y = Infinity THEN TRUE ELSE IF x = Infinity THEN FALSE ELSE x <= y

\* Math.min(x, y) on numbers that may be Infinity (line 106).
MathMin(x, y) == IF Leq(x, y) THEN x ELSE y

\* Math.max(x, y) on finite numbers (lines 42, 50, 106).
MathMax(x, y) == IF x >= y THEN x ELSE y

-----------------------------------------------------------------------------
(* Constants and rate tables, lines 11-30 *)

PERSONAL_ALLOWANCE_FULL == 12570
PA_TAPER_THRESHOLD == 100000
TOP_RATE_THRESHOLD == 125140

TAXABLE_BANDS ==
    [ENG_2025_26 |-> <<
        [name |-> "Basic rate",      rate |-> 20, taxableSize |-> 37700 * Pound],
        [name |-> "Higher rate",     rate |-> 40, taxableSize |-> null],
        [name |-> "Additional rate", rate |-> 45, taxableSize |-> null] >>,
     SCO_2025_26 |-> <<
        [name |-> "Starter rate",      rate |-> 19, taxableSize |-> 2827 * Pound],
        [name |-> "Basic rate",        rate |-> 20, taxableSize |-> 12094 * Pound],
        [name |-> "Intermediate rate", rate |-> 21, taxableSize |-> 16171 * Pound],
        [name |-> "Higher rate",       rate |-> 42, taxableSize |-> 31338 * Pound],
        [name |-> "Advanced rate",     rate |-> 45, taxableSize |-> null],
        [name |-> "Top rate",          rate |-> 48, taxableSize |-> null] >>]

Regions == DOMAIN TAXABLE_BANDS

-----------------------------------------------------------------------------
(* calculatePersonalAllowance, lines 36-44 *)

\* A plausible slip: the reduction multiplies by two instead of dividing.
calculatePersonalAllowance_times2(g) ==
    IF g <= PA_TAPER_THRESHOLD * Pound
    THEN PERSONAL_ALLOWANCE_FULL * Pound
    ELSE MathMax(0, PERSONAL_ALLOWANCE_FULL * Pound - (g - PA_TAPER_THRESHOLD * Pound) * 2)

\* A plausible slip: the clamp Math.max(0, ...) is left out.
calculatePersonalAllowance_noclamp(g) ==
    IF g <= PA_TAPER_THRESHOLD * Pound
    THEN PERSONAL_ALLOWANCE_FULL * Pound
    ELSE PERSONAL_ALLOWANCE_FULL * Pound - (g - PA_TAPER_THRESHOLD * Pound) \div 2

calculatePersonalAllowance(g) ==
    IF g <= PA_TAPER_THRESHOLD * Pound
    THEN PERSONAL_ALLOWANCE_FULL * Pound
    ELSE LET reduction == (g - PA_TAPER_THRESHOLD * Pound) \div 2
         IN  MathMax(0, PERSONAL_ALLOWANCE_FULL * Pound - reduction)

(* calculateTaxableIncome, lines 49-51 *)
calculateTaxableIncome(g, pa) == MathMax(0, g - pa)

-----------------------------------------------------------------------------
(* buildTaxBands, lines 57-89 *)

\* The properties every object inherits from Object.prototype, as the lookup
\* TAXABLE_BANDS[region] of line 58 finds them: a function's length is its
\* number of parameters, and Object.prototype itself has no length.
ObjectPrototype ==
    [constructor    |-> [kind |-> "function", length |-> 1, items |-> <<>>],
     hasOwnProperty |-> [kind |-> "function", length |-> 1, items |-> <<>>],
     toString       |-> [kind |-> "function", length |-> 0, items |-> <<>>],
     valueOf        |-> [kind |-> "function", length |-> 0, items |-> <<>>],
     __proto__      |-> [kind |-> "object",   length |-> 0, items |-> <<>>]]

undefined == [kind |-> "undefined", length |-> 0, items |-> <<>>]

\* TAXABLE_BANDS[key]: an own property, else an inherited one, else undefined.
GetProperty(key) ==
    IF key \in DOMAIN TAXABLE_BANDS
    THEN [kind |-> "array", length |-> Len(TAXABLE_BANDS[key]), items |-> TAXABLE_BANDS[key]]
    ELSE IF key \in DOMAIN ObjectPrototype THEN ObjectPrototype[key]
    ELSE undefined

\* Line 58: TAXABLE_BANDS[region] || TAXABLE_BANDS.ENG_2025_26 (only undefined is falsy here).
BandTemplates(key) ==
    IF GetProperty(key).kind # "undefined" THEN GetProperty(key) ELSE GetProperty("ENG_2025_26")

\* A plausible slip: the penultimate band's bound is taken relative to the allowance.
UnboundedUpTo_relative(i, n, pa) ==
    IF i = n THEN Infinity ELSE pa + TOP_RATE_THRESHOLD * Pound

\* Lines 68-74: the bound of a band whose taxableSize is null.
UnboundedUpTo(i, n, pa) ==
    IF i = n THEN Infinity ELSE TOP_RATE_THRESHOLD * Pound

\* Lines 62-86, from index i (1-based) on.  Reading bandTemplates[i] beyond the
\* items gives undefined, and template.taxableSize then throws a TypeError.
RECURSIVE BuildLoop(_, _, _, _, _)
BuildLoop(templates, i, pa, cumulativeTaxable, acc) ==
    IF i > templates.length THEN [thrown |-> FALSE, bands |-> acc]
    ELSE IF i > Len(templates.items) THEN [thrown |-> TRUE, bands |-> <<>>]
    ELSE LET template == templates.items[i]
             cum == IF template.taxableSize = null
                    THEN cumulativeTaxable
                    ELSE cumulativeTaxable + template.taxableSize
             grossUpTo == IF template.taxableSize = null
                          THEN UnboundedUpTo(i, templates.length, pa)
                          ELSE pa + cum
         IN  BuildLoop(templates, i + 1, pa, cum,
                       Append(acc, [name |-> template.name, rate |-> template.rate,
                                    grossUpTo |-> grossUpTo]))

buildTaxBands(pa, key) == BuildLoop(BandTemplates(key), 1, pa, 0, <<>>)

-----------------------------------------------------------------------------
(* calculateIncomeTax, lines 96-127 *)

\* A plausible slip: the first band starts at 0 instead of at the allowance.
InitialThreshold_zero(pa) == 0

\* Line 100: let prevGrossThreshold = personalAllowance.
InitialThreshold(pa) == pa

\* A plausible slip: Math.max(0, ...) is left out.
GrossInBand_noclamp(g, cur, prev) == MathMin(g, cur) - prev

\* Line 106.  prev is finite: Infinity is the bound of the last band only.
GrossInBand(g, cur, prev) == MathMax(0, MathMin(g, cur) - prev)

\* A plausible slip: totalTax = tax instead of totalTax += tax.
Accumulate_assign(total, tax) == tax

\* Line 119.
Accumulate(total, tax) == total + tax

\* A plausible slip: the loop stops on < instead of <=.
LoopBreaks_strict(g, cur) == Leq(g, cur) /\ g # cur

\* Line 123: if (grossIncome <= currentGrossThreshold) break.
LoopBreaks(g, cur) == Leq(g, cur)

\* Lines 102-124, from band i (1-based) on.
RECURSIVE TaxLoop(_, _, _, _, _, _)
TaxLoop(bs, i, g, prev, total, acc) ==
    IF i > Len(bs) THEN [totalTax |-> total, breakdown |-> acc]
    ELSE LET band == bs[i]
             currentGrossThreshold == band.grossUpTo
             taxableInBand == GrossInBand(g, currentGrossThreshold, prev)
             tax == taxableInBand * band.rate
             acc2 == Append(acc, [name |-> band.name, rate |-> band.rate,
                                  amountInBand |-> taxableInBand, taxInBand |-> tax])
             total2 == Accumulate(total, tax)
         IN  IF LoopBreaks(g, currentGrossThreshold)
             THEN [totalTax |-> total2, breakdown |-> acc2]
             ELSE TaxLoop(bs, i + 1, g, currentGrossThreshold, total2, acc2)

calculateIncomeTax(g, pa, key) ==
    LET built == buildTaxBands(pa, key)
    IN  IF built.thrown
        THEN [thrown |-> TRUE, totalTax |-> 0, breakdown |-> <<>>]
        ELSE LET r == TaxLoop(built.bands, 1, g, InitialThreshold(pa), 0, <<>>)
             IN  [thrown |-> FALSE, totalTax |-> r.totalTax, breakdown |-> r.breakdown]

\* Line 198 (and 316): netAnnual = salary - totalTax, in hundredths of a unit.
NetAnnual(salary, tax) == 100 * salary - tax

-----------------------------------------------------------------------------
(* Inputs of the tax module *)

\* The grid of gross incomes: every GridStep pounds, GridPoints steps up.
GridStep == 1000
GridPoints == 160

\* The allowances handed to buildTaxBands: every AllowanceStep pounds up to the full allowance.
AllowanceStep == 500

\* Gross incomes (in pounds) where a band starts or ends for some allowance, and
\* the incomes of the documented scenarios.
EdgePounds == {12570, 15397, 27491, 30000, 37700, 43662, 50270, 75000,
               100000, 112570, 125140, 150000}

\* Gross incomes, in units: the grid, and each edge with half a pound either side.
GrossInputs ==
    {k * GridStep * Pound : k \in 0..GridPoints}
        \cup {t * Pound + d : t \in EdgePounds, d \in {-2, 0, 2}}

\* Allowances in [0, PERSONAL_ALLOWANCE_FULL], in units.
AllowanceInputs ==
    {k * AllowanceStep * Pound : k \in 0..(PERSONAL_ALLOWANCE_FULL \div AllowanceStep)}
        \cup {1, PERSONAL_ALLOWANCE_FULL * Pound - 1, PERSONAL_ALLOWANCE_FULL * Pound}

\* Jurisdiction strings that are not keys of TAXABLE_BANDS.
UnknownRegions == {"", "WAL_2025_26", "constructor", "hasOwnProperty", "toString",
                   "valueOf", "__proto__"}

\* The gross incomes tried with an unknown jurisdiction.
UnknownGross == {0, 30000 * Pound, 110000 * Pound, 150000 * Pound}

-----------------------------------------------------------------------------
(* The tax module as a state machine: the state records the last call *)

NoCall ==
    /\ op = "none"
    /\ grossIncome = 0
    /\ region = "ENG_2025_26"
    /\ personalAllowance = 0
    /\ taxableIncome = 0
    /\ bands = <<>>
    /\ totalTax = 0
    /\ breakdown = <<>>
    /\ netAnnual = 0
    /\ thrown = FALSE

\* The tax calculation of a handler, lines 195-198 (and 313-316).  A TypeError
\* out of calculateIncomeTax leaves totalTax, breakdown and netAnnual unassigned.
Calculate(g, key) ==
    LET pa == calculatePersonalAllowance(g)
        r  == calculateIncomeTax(g, pa, key)
        b  == buildTaxBands(pa, key)
    IN  /\ op' = "calc"
        /\ grossIncome' = g
        /\ region' = key
        /\ personalAllowance' = pa
        /\ taxableIncome' = calculateTaxableIncome(g, pa)
        /\ bands' = b.bands
        /\ thrown' = r.thrown
        /\ totalTax' = r.totalTax
        /\ breakdown' = r.breakdown
        /\ netAnnual' = IF r.thrown THEN 0 ELSE NetAnnual(g, r.totalTax)

\* A call of buildTaxBands alone, with an allowance of the caller's choice.
Build(pa, key) ==
    LET b == buildTaxBands(pa, key)
    IN  /\ op' = "build"
        /\ grossIncome' = 0
        /\ region' = key
        /\ personalAllowance' = pa
        /\ taxableIncome' = 0
        /\ bands' = b.bands
        /\ thrown' = b.thrown
        /\ totalTax' = 0
        /\ breakdown' = <<>>
        /\ netAnnual' = 0

NoPage ==
    /\ page = "none"
    /\ inputs = <<>>
    /\ dom = <<>>

Init == NoCall /\ NoPage

CalculateKnown ==
    /\ \E g \in GrossInputs, key \in Regions : Calculate(g, key)
    /\ UNCHANGED pageVars

CalculateUnknown ==
    /\ \E g \in UnknownGross, key \in UnknownRegions : Calculate(g, key)
    /\ UNCHANGED pageVars

BuildBands ==
    /\ \E pa \in AllowanceInputs, key \in Regions \cup UnknownRegions : Build(pa, key)
    /\ UNCHANGED pageVars

Next == CalculateKnown \/ CalculateUnknown \/ BuildBands

Spec == Init /\ [][Next]_vars

-----------------------------------------------------------------------------
(* The pages, lines 129-377 *)

\* Units in one hour: hours per week are counted in half hours (37.5 is 75).
HoursUnit == 2

\* The value of a form field: a number (in the field's units), nothing, or text
\* that is no number.
Number(n) == [kind |-> "number", value |-> n]
Blank == [kind |-> "blank", value |-> 0]
NotANumber == [kind |-> "text", value |-> 0]

\* parseFloat(field.value) || 0 (lines 174-177, 292-295): NaN and 0 both give 0.
ParseFloatOr0(v) == IF v.kind = "number" THEN v.value ELSE 0

\* formatCurrency, lines 133-140, of the amount num/den hundredths of a unit:
\* the amount rounded to two decimals, as a number of pence.  Amounts are >= 0.
formatCurrency(num, den) == (2 * num + Pound * den) \div (2 * Pound * den)

\* (totalTax / salary * 100).toFixed(1), lines 199 and 216: tenths of a per cent.
EffectiveRate(salary, tax) ==
    IF salary > 0 THEN (20 * tax + salary) \div (2 * salary) ELSE 0

\* Lines 219-233: one row per band with a positive amount.
RECURSIVE BreakdownRows(_)
BreakdownRows(bd) ==
    IF bd = <<>> THEN <<>>
    ELSE LET band == bd[1]
             rest == BreakdownRows(Tail(bd))
         IN  IF band.amountInBand > 0
             THEN <<[name |-> band.name, rate |-> band.rate,
                     amount |-> formatCurrency(100 * band.amountInBand, 1),
                     tax |-> formatCurrency(band.taxInBand, 1)]>> \o rest
             ELSE rest

\* A plausible slip: a salary of 0 is rejected too.
InvalidSalaryInput_zero(salary, hours, weeks, days) ==
    salary <= 0 \/ hours <= 0 \/ weeks <= 0 \/ days <= 0

\* Line 180.
InvalidSalaryInput(salary, hours, weeks, days) ==
    salary < 0 \/ hours <= 0 \/ weeks <= 0 \/ days <= 0

\* Line 298.
InvalidHourlyInput(hourly, hours, weeks, days) ==
    hourly < 0 \/ hours <= 0 \/ weeks <= 0 \/ days <= 0

\* Lines 194-233 (and 312-351): the tax calculation and the net, summary and
\* breakdown elements, for the annual salary.  A TypeError out of
\* calculateIncomeTax ends the handler with the elements after it untouched.
TaxAndNet(d, salary, hours, weeks, days, key) ==
    LET pa == calculatePersonalAllowance(salary)
        taxable == calculateTaxableIncome(salary, pa)
        r == calculateIncomeTax(salary, pa, key)
        net == NetAnnual(salary, r.totalTax)
    IN  IF r.thrown THEN d
        ELSE [d EXCEPT
                !.resultNetAnnual = formatCurrency(net, 1),
                !.resultNetWeekly = formatCurrency(net, weeks),
                !.resultNetDaily = formatCurrency(net, weeks * days),
                !.resultNetHourly = formatCurrency(net * HoursUnit, weeks * hours),
                !.resultPersonalAllowance = formatCurrency(100 * pa, 1),
                !.resultTaxableIncome = formatCurrency(100 * taxable, 1),
                !.resultTaxTotal = formatCurrency(r.totalTax, 1),
                !.resultEffectiveRate = EffectiveRate(salary, r.totalTax),
                !.taxBreakdownBody = BreakdownRows(r.breakdown)]

\* calculateFromSalary, lines 173-234: the elements after the handler has run
\* on the fields in, having shown d before.
calculateFromSalary(in, d) ==
    LET salary == ParseFloatOr0(in.amount)
        hours == ParseFloatOr0(in.hours)
        weeks == ParseFloatOr0(in.weeks)
        days == ParseFloatOr0(in.days)
    IN  IF InvalidSalaryInput(salary, hours, weeks, days) THEN d
        ELSE TaxAndNet([d EXCEPT
                           !.resultPrimary = formatCurrency(100 * salary * HoursUnit, weeks * hours),
                           !.resultWeekly = formatCurrency(100 * salary, weeks),
                           !.resultDaily = formatCurrency(100 * salary, weeks * days)],
                       salary, hours, weeks, days, in.region)

\* calculateFromHourly, lines 291-352.
calculateFromHourly(in, d) ==
    LET hourly == ParseFloatOr0(in.amount)
        hours == ParseFloatOr0(in.hours)
        weeks == ParseFloatOr0(in.weeks)
        days == ParseFloatOr0(in.days)
    IN  IF InvalidHourlyInput(hourly, hours, weeks, days) THEN d
        ELSE LET annualSalary == (hourly * hours * weeks) \div HoursUnit
             IN  TaxAndNet([d EXCEPT
                               !.resultPrimary = formatCurrency(100 * annualSalary, 1),
                               !.resultWeekly = formatCurrency(100 * hourly * hours, HoursUnit),
                               !.resultDaily = formatCurrency(100 * hourly * hours, HoursUnit * days)],
                           annualSalary, hours, weeks, days, in.region)

\* The handler of the page.
Recalculate(pg, in, d) ==
    IF pg = "salary" THEN calculateFromSalary(in, d) ELSE calculateFromHourly(in, d)

\* The values the reset button restores, lines 247-252 and 365-370.
ResetInputs(pg) ==
    [amount |-> IF pg = "salary" THEN Number(30000 * Pound) ELSE Number(15 * Pound),
     hours |-> Number(75), weeks |-> Number(52), days |-> Number(5),
     region |-> "ENG_2025_26", taxYear |-> "2025_26"]

\* The result elements before the first calculation.  resultPrimary is
\* result-hourly on the salary page and result-salary on the hourly page.
EmptyDom ==
    [resultPrimary |-> 0, resultWeekly |-> 0, resultDaily |-> 0,
     resultNetAnnual |-> 0, resultNetWeekly |-> 0, resultNetDaily |-> 0,
     resultNetHourly |-> 0, resultPersonalAllowance |-> 0, resultTaxableIncome |-> 0,
     resultTaxTotal |-> 0, resultEffectiveRate |-> 0, taxBreakdownBody |-> <<>>]

\* What a user can put in the fields.
SalaryValues == {Blank, NotANumber, Number(-1 * Pound), Number(0),
                 Number(30000 * Pound), Number(110000 * Pound)}
HourlyValues == {Blank, NotANumber, Number(-1 * Pound), Number(0),
                 Number(15 * Pound), Number(60 * Pound)}
HoursValues == {Blank, Number(0), Number(75), Number(80)}
WeeksValues == {Number(0), Number(48), Number(52)}
DaysValues == {Number(-1), Number(4), Number(5)}
RegionOptions == Regions
TaxYearOptions == {"2025_26"}

\* A page once DOMContentLoaded has run: the fields hold the defaults and the
\* initial calculation (lines 257, 375) has filled the elements.
PageInit ==
    /\ page \in {"salary", "hourly"}
    /\ inputs = ResetInputs(page)
    /\ dom = Recalculate(page, inputs, EmptyDom)

\* An input event: the field has its new value when the handler runs.
Edit(in) ==
    /\ inputs' = in
    /\ dom' = Recalculate(page, in, dom)
    /\ UNCHANGED <<page, op, grossIncome, region, personalAllowance, taxableIncome,
                   bands, totalTax, breakdown, netAnnual, thrown>>

InputSalary ==
    /\ page = "salary"
    /\ \E v \in SalaryValues : Edit([inputs EXCEPT !.amount = v])

InputHourly ==
    /\ page = "hourly"
    /\ \E v \in HourlyValues : Edit([inputs EXCEPT !.amount = v])

InputHours == \E v \in HoursValues : Edit([inputs EXCEPT !.hours = v])

InputWeeks == \E v \in WeeksValues : Edit([inputs EXCEPT !.weeks = v])

InputDays == \E v \in DaysValues : Edit([inputs EXCEPT !.days = v])

SelectRegion == \E v \in RegionOptions : Edit([inputs EXCEPT !.region = v])

SelectTaxYear == \E v \in TaxYearOptions : Edit([inputs EXCEPT !.taxYear = v])

\* A change event: the handler runs again on the fields as they are.
Change == Edit(inputs)

\* The reset button, lines 246-254 and 364-372.
Reset == Edit(ResetInputs(page))

InitPage == NoCall /\ PageInit

NextPage ==
    \/ InputSalary
    \/ InputHourly
    \/ InputHours
    \/ InputWeeks
    \/ InputDays
    \/ SelectRegion
    \/ SelectTaxYear
    \/ Change
    \/ Reset

SpecPage == InitPage /\ [][NextPage]_vars

-----------------------------------------------------------------------------
(* Properties of the tax module, checked under Spec *)

\* The state records a completed calculation for one of the table's own regions.
Calculated == op = "calc" /\ region \in Regions

\* The gross income lies strictly inside the taper range.
InTaper(g) == PA_TAPER_THRESHOLD * Pound < g /\ g < TOP_RATE_THRESHOLD * Pound

RECURSIVE SumAmounts(_)
SumAmounts(bd) == IF bd = <<>> THEN 0 ELSE bd[1].amountInBand + SumAmounts(Tail(bd))

\* C1: for every non-negative gross income and each of the two regions, with the
\* allowance derived from the income, the amounts of the breakdown add up to the
\* taxable income max(0, gross - allowance).
C1_AmountsSumToTaxableIncome ==
    Calculated =>
        /\ ~thrown
        /\ SumAmounts(breakdown) = taxableIncome
        /\ taxableIncome = (IF grossIncome > personalAllowance
                            THEN grossIncome - personalAllowance ELSE 0)

\* A Scottish calculation inside the taper range, with income spread over the bands.
C1_Witness ==
    /\ Calculated
    /\ region = "SCO_2025_26"
    /\ InTaper(grossIncome)
    /\ Len(breakdown) = 5
    /\ SumAmounts(breakdown) = grossIncome - personalAllowance

\* The band loop of lines 102-124 without the break of line 123: every band is visited.
RECURSIVE TaxLoopAllBands(_, _, _, _, _, _)
TaxLoopAllBands(bs, i, g, prev, total, acc) ==
    IF i > Len(bs) THEN [totalTax |-> total, breakdown |-> acc]
    ELSE LET taxableInBand == GrossInBand(g, bs[i].grossUpTo, prev)
             tax == taxableInBand * bs[i].rate
         IN  TaxLoopAllBands(bs, i + 1, g, bs[i].grossUpTo, Accumulate(total, tax),
                             Append(acc, [name |-> bs[i].name, rate |-> bs[i].rate,
                                          amountInBand |-> taxableInBand, taxInBand |-> tax]))

AllBands == TaxLoopAllBands(bands, 1, grossIncome, personalAllowance, 0, <<>>)

\* The first band whose upper bound the gross income does not exceed.
FirstCovering(bs, g) == CHOOSE i \in 1..Len(bs) :
    /\ Leq(g, bs[i].grossUpTo)
    /\ \A j \in 1..(i - 1) : ~Leq(g, bs[j].grossUpTo)

\* C2 as stated: the breakdown has one entry per band of the template, in
\* template order, trailing zero-amount bands included, and equals the breakdown
\* of the loop run over all bands.
C2_OneEntryPerBand ==
    Calculated =>
        /\ Len(breakdown) = Len(TAXABLE_BANDS[region])
        /\ \A i \in 1..Len(breakdown) : breakdown[i].name = TAXABLE_BANDS[region][i].name
        /\ breakdown = AllBands.breakdown

\* C2 amended: the breakdown holds the template's bands in order up to and
\* including the first band whose upper bound is >= the gross income; its entries
\* are those of the loop run over all bands, the bands left out all have amount
\* and tax 0 there, and totalTax is the same.
C2_BreakdownIsCoveringPrefix ==
    Calculated =>
        LET n == Len(breakdown)
            full == AllBands
        IN  /\ n = FirstCovering(bands, grossIncome)
            /\ \A i \in 1..n :
                   /\ breakdown[i].name = TAXABLE_BANDS[region][i].name
                   /\ breakdown[i].rate = TAXABLE_BANDS[region][i].rate
            /\ breakdown = SubSeq(full.breakdown, 1, n)
            /\ \A i \in (n + 1)..Len(full.breakdown) :
                   /\ full.breakdown[i].amountInBand = 0
                   /\ full.breakdown[i].taxInBand = 0
            /\ totalTax = full.totalTax

\* An English calculation that stops exactly on the bound of the first band:
\* one entry, two bands left out.
C2_Witness ==
    /\ Calculated
    /\ region = "ENG_2025_26"
    /\ grossIncome = bands[1].grossUpTo
    /\ Len(breakdown) = 1
    /\ Len(TAXABLE_BANDS[region]) = 3

\* C3: the allowance is the full 12570 up to 100000 and max(0, 12570 - (g - 100000)/2)
\* above; it lies in [0, 12570], is strictly decreasing for 100000 < g <= 125140,
\* is exactly 0 at 125140 = 2*12570 + 100000 and stays 0 above.
C3_AllowanceTaper ==
    [][op' = "calc" =>
        /\ grossIncome' <= PA_TAPER_THRESHOLD * Pound
               => personalAllowance' = PERSONAL_ALLOWANCE_FULL * Pound
        /\ grossIncome' > PA_TAPER_THRESHOLD * Pound
               => \/ /\ 2 * personalAllowance' = 2 * PERSONAL_ALLOWANCE_FULL * Pound
                                                   - (grossIncome' - PA_TAPER_THRESHOLD * Pound)
                     /\ personalAllowance' >= 0
                  \/ /\ 2 * PERSONAL_ALLOWANCE_FULL * Pound
                            - (grossIncome' - PA_TAPER_THRESHOLD * Pound) < 0
                     /\ personalAllowance' = 0
        /\ 0 <= personalAllowance' /\ personalAllowance' <= PERSONAL_ALLOWANCE_FULL * Pound
        /\ TOP_RATE_THRESHOLD = 2 * PERSONAL_ALLOWANCE_FULL + PA_TAPER_THRESHOLD
        /\ grossIncome' >= TOP_RATE_THRESHOLD * Pound => personalAllowance' = 0
        /\ grossIncome' < TOP_RATE_THRESHOLD * Pound => personalAllowance' > 0
        /\ (op = "calc" /\ PA_TAPER_THRESHOLD * Pound < grossIncome
              /\ grossIncome < grossIncome' /\ grossIncome' <= TOP_RATE_THRESHOLD * Pound)
               => personalAllowance' < personalAllowance
    ]_vars

\* A calculation half a pound into the taper: the allowance is a quarter pound down.
C3_Witness ==
    /\ op = "calc"
    /\ grossIncome = PA_TAPER_THRESHOLD * Pound + 2
    /\ personalAllowance = PERSONAL_ALLOWANCE_FULL * Pound - 1

\* C4: for a fixed region, totalTax is non-decreasing in the gross income,
\* the taper range included.
C4_TotalTaxMonotone ==
    [][(Calculated /\ op' = "calc" /\ region' = region /\ grossIncome <= grossIncome')
           => totalTax <= totalTax'
    ]_vars

\* A calculation in the taper range with tax falling in the band above the basic one.
C4_Witness ==
    /\ Calculated
    /\ InTaper(grossIncome)
    /\ totalTax > 0
    /\ region = "ENG_2025_26"
    /\ Len(breakdown) = 2

\* C5: for every allowance in [0, 12570] and each region, buildTaxBands returns the
\* bands in template order with non-decreasing upper bounds, the last bound
\* Infinity, and the non-last unbounded band's bound exactly 125140 whatever the
\* allowance, which is never below the allowance-based bound before it.
C5_BandsOrdered ==
    (op = "build" /\ region \in Regions) =>
        LET t == TAXABLE_BANDS[region]
            n == Len(t)
        IN  /\ ~thrown
            /\ Len(bands) = n
            /\ \A i \in 1..n : bands[i].name = t[i].name /\ bands[i].rate = t[i].rate
            /\ \A i \in 1..(n - 1) : Leq(bands[i].grossUpTo, bands[i + 1].grossUpTo)
            /\ bands[n].grossUpTo = Infinity
            /\ \A i \in 1..(n - 1) :
                   /\ bands[i].grossUpTo # Infinity
                   /\ t[i].taxableSize = null
                          => /\ bands[i].grossUpTo = TOP_RATE_THRESHOLD * Pound
                             /\ i > 1 => bands[i - 1].grossUpTo <= TOP_RATE_THRESHOLD * Pound

\* The Scottish bands for the full allowance, where the allowance-based bounds are highest.
C5_Witness ==
    /\ op = "build"
    /\ region = "SCO_2025_26"
    /\ personalAllowance = PERSONAL_ALLOWANCE_FULL * Pound
    /\ Len(bands) = 6
    /\ bands[4].grossUpTo = 75000 * Pound

\* C6: for every jurisdiction string that is not a key of the table, names of
\* inherited object properties included, buildTaxBands and calculateIncomeTax
\* raise no error and return what they return for ENG_2025_26.
C6_UnknownRegionFallsBack ==
    (op \in {"calc", "build"} /\ region \notin Regions) =>
        /\ ~thrown
        /\ bands = buildTaxBands(personalAllowance, "ENG_2025_26").bands
        /\ op = "calc" =>
               LET r == calculateIncomeTax(grossIncome, personalAllowance, "ENG_2025_26")
               IN  totalTax = r.totalTax /\ breakdown = r.breakdown

\* C7: with the allowance derived from the income, 0 <= totalTax <= gross income,
\* and every breakdown entry has amountInBand >= 0 and taxInBand >= 0.
C7_TaxWithinIncome ==
    Calculated =>
        /\ 0 <= totalTax
        /\ totalTax <= 100 * grossIncome
        /\ \A i \in 1..Len(breakdown) :
               breakdown[i].amountInBand >= 0 /\ breakdown[i].taxInBand >= 0

\* A calculation for a positive income below the allowance: the clamp gives amount 0.
C7_Witness ==
    /\ Calculated
    /\ 0 < grossIncome
    /\ grossIncome < personalAllowance
    /\ Len(breakdown) = 1
    /\ breakdown[1].amountInBand = 0
    /\ totalTax = 0

\* C8: England, gross 150000: the allowance is 0, the bands are 20% up to 37700,
\* 40% up to 125140 and 45% above, the amounts are 37700, 87440 and 24860, and
\* totalTax is 53703.
C8_ScenarioB ==
    (Calculated /\ region = "ENG_2025_26" /\ grossIncome = 150000 * Pound) =>
        /\ personalAllowance = 0
        /\ bands = << [name |-> "Basic rate", rate |-> 20, grossUpTo |-> 37700 * Pound],
                      [name |-> "Higher rate", rate |-> 40, grossUpTo |-> 125140 * Pound],
                      [name |-> "Additional rate", rate |-> 45, grossUpTo |-> Infinity] >>
        /\ Len(breakdown) = 3
        /\ breakdown[1].amountInBand = 37700 * Pound
        /\ breakdown[2].amountInBand = 87440 * Pound
        /\ breakdown[3].amountInBand = 24860 * Pound
        /\ totalTax = 53703 * Pound * 100
        /\ totalTax = (37700 * 20 + 87440 * 40 + 24860 * 45) * Pound

\* The calculation of scenario B has been made.
C8_Witness ==
    /\ op = "calc"
    /\ region = "ENG_2025_26"
    /\ grossIncome = 150000 * Pound
    /\ ~thrown
    /\ totalTax > 0

\* C10: net annual pay, salary - totalTax, is non-decreasing in the gross salary
\* for each region, the taper range included.
C10_NetAnnualMonotone ==
    [][(Calculated /\ op' = "calc" /\ region' = region /\ grossIncome <= grossIncome')
           => netAnnual <= netAnnual'
    ]_vars

\* A Scottish calculation in the taper range, where the marginal rate is highest.
C10_Witness ==
    /\ Calculated
    /\ region = "SCO_2025_26"
    /\ InTaper(grossIncome)
    /\ netAnnual > 0
    /\ netAnnual < 100 * grossIncome

-----------------------------------------------------------------------------
(* Properties of the pages, checked under SpecPage *)

\* The number a field stands for: blank and non-numeric fields count as 0.
FieldNumber(v) == IF v.kind = "number" THEN v.value ELSE 0

\* The fields pass validation: not (amount < 0 or hours <= 0 or weeks <= 0 or days <= 0).
ValidTuple(in) ==
    /\ FieldNumber(in.amount) >= 0
    /\ FieldNumber(in.hours) > 0
    /\ FieldNumber(in.weeks) > 0
    /\ FieldNumber(in.days) > 0

\* Every displayed result, each computed from the one tuple in.
Shown(pg, in) ==
    LET hours == FieldNumber(in.hours)
        weeks == FieldNumber(in.weeks)
        days == FieldNumber(in.days)
        salary == IF pg = "salary" THEN FieldNumber(in.amount)
                  ELSE (FieldNumber(in.amount) * hours * weeks) \div HoursUnit
        pa == calculatePersonalAllowance(salary)
        r == calculateIncomeTax(salary, pa, in.region)
        net == 100 * salary - r.totalTax
    IN  [resultPrimary |-> IF pg = "salary"
                           THEN formatCurrency(100 * salary * HoursUnit, weeks * hours)
                           ELSE formatCurrency(100 * salary, 1),
         resultWeekly |-> IF pg = "salary"
                          THEN formatCurrency(100 * salary, weeks)
                          ELSE formatCurrency(100 * FieldNumber(in.amount) * hours, HoursUnit),
         resultDaily |-> IF pg = "salary"
                         THEN formatCurrency(100 * salary, weeks * days)
                         ELSE formatCurrency(100 * FieldNumber(in.amount) * hours,
                                             HoursUnit * days),
         resultNetAnnual |-> formatCurrency(net, 1),
         resultNetWeekly |-> formatCurrency(net, weeks),
         resultNetDaily |-> formatCurrency(net, weeks * days),
         resultNetHourly |-> formatCurrency(net * HoursUnit, weeks * hours),
         resultPersonalAllowance |-> formatCurrency(100 * pa, 1),
         resultTaxableIncome |-> formatCurrency(100 * calculateTaxableIncome(salary, pa), 1),
         resultTaxTotal |-> formatCurrency(r.totalTax, 1),
         resultEffectiveRate |-> EffectiveRate(salary, r.totalTax),
         taxBreakdownBody |-> BreakdownRows(r.breakdown)]

\* C9: on either page, an event whose fields fail validation changes no displayed
\* result, and an event whose fields pass it sets every displayed result from
\* that one tuple; so all results always come from the most recent valid tuple.
C9_ResultsFromOneValidTuple ==
    [][IF ValidTuple(inputs') THEN dom' = Shown(page, inputs') ELSE dom' = dom]_vars

\* The salary field holds a negative number, and the page still shows the
\* results of the Scottish calculation for 110000 made before it.
C9_Witness ==
    /\ page = "salary"
    /\ inputs.amount = Number(-1 * Pound)
    /\ inputs.region = "SCO_2025_26"
    /\ ~ValidTuple(inputs)
    /\ ValidTuple([inputs EXCEPT !.amount = Number(110000 * Pound)])
    /\ dom = Shown("salary", [inputs EXCEPT !.amount = Number(110000 * Pound)])
    /\ Len(dom.taxBreakdownBody) = 5

=============================================================================
